---- MODULE Spec2Model ----
(***************************************************************************)
(* twing-loader: a webpack loader that turns a Twig template into a module. *)
(* The model follows src/src/index.ts: several invocations of the loader   *)
(* function run as interleaved asynchronous handlers against one shared     *)
(* TwingEnvironment (the module that require(environmentModulePath) hands   *)
(* to every invocation).                                                    *)
(*                                                                         *)
(* Paths and rendered strings are sequences of one-character strings.       *)
(* A loader is the list of in-memory overrides that precede the backing     *)
(* loader: TwingLoaderChain([PathSupportingArrayLoader{p -> s}, prev]) is   *)
(* <<[path |-> p, code |-> s]>> \o prev, and the backing loader is << >>.   *)
(***************************************************************************)
EXTENDS Naturals, Sequences, FiniteSets

(* ------------------------------ bounds --------------------------------- *)

MaxInv == 2

MaxEmits == 2

MaxRefs == 2

Invs == 1..MaxInv

(* ------------------------------ domains -------------------------------- *)

PathA == <<"a">>

PathB == <<"d", "\\", "b">>

PathMissing == <<"m">>

RawResourcePaths == {PathA, PathB}

EnvModulePath == <<"e", "\\", "v">>

Sources == {"s1", "s2"}

DiskCode == "disk"

RenderContexts == {"absent", "empty"}

Modes == {"production", "development", "none"}

(* The rendered text, as UTF-16 code units: h, a quote, a line feed, a TAB, *)
(* U+0001, a surrogate pair (U+1F600) and a high surrogate standing alone.  *)
RenderedTexts == {<<104, 34, 10, 9, 1, 55357, 56832, 55296>>}

SetupOutcomes ==
  {"ok", "optionsInvalid", "requireFail", "tokenizeFail", "parseFail",
   "setLoaderFail", "onFail"}

NoText == << >>

NoError == "none"

(* --------------------------- pure functions ---------------------------- *)

slash(p) == [k \in DOMAIN p |-> IF p[k] = "\\" THEN "/" ELSE p[k]]

BackingFiles == {slash(PathA), slash(PathB)}

RefNames == BackingFiles \cup {PathMissing}

NotifiedNames == {slash(PathB), PathMissing}

HexSha256(name) == <<"sha256hex">> \o name

getTemplateHashDevelopmentOnly(m, name) ==
  IF m = "development" THEN name ELSE HexSha256(name)

getTemplateHash(m, name) == IF m # "production" THEN name ELSE HexSha256(name)

(* JSON.stringify (line 181) works on the UTF-16 code units of the text: a  *)
(* text is a sequence of code units, 0..65535.                              *)

HexDigit(d) == IF d < 10 THEN 48 + d ELSE 87 + d

UnicodeEscape(c) ==
  <<92, 117, HexDigit(c \div 4096), HexDigit((c \div 256) % 16),
    HexDigit((c \div 16) % 16), HexDigit(c % 16)>>

IsHighSurrogate(c) == c >= 55296 /\ c <= 56319

IsLowSurrogate(c) == c >= 56320 /\ c <= 57343

(* One code unit that is not half of a surrogate pair: the quote, the       *)
(* backslash and the control characters are escaped (with the short forms   *)
(* for BS, TAB, LF, FF and CR), and so is a surrogate standing alone.       *)
EscapeChar(c) ==
  IF c = 34 THEN <<92, 34>>
  ELSE IF c = 92 THEN <<92, 92>>
  ELSE IF c = 8 THEN <<92, 98>>
  ELSE IF c = 9 THEN <<92, 116>>
  ELSE IF c = 10 THEN <<92, 110>>
  ELSE IF c = 12 THEN <<92, 102>>
  ELSE IF c = 13 THEN <<92, 114>>
  ELSE IF c < 32 THEN UnicodeEscape(c)
  ELSE IF IsHighSurrogate(c) \/ IsLowSurrogate(c) THEN UnicodeEscape(c)
  ELSE <<c>>

RECURSIVE EscapeAll(_)
EscapeAll(s) ==
  IF s = << >> THEN << >>
  ELSE IF Len(s) >= 2 /\ IsHighSurrogate(s[1]) /\ IsLowSurrogate(s[2])
  THEN <<s[1], s[2]>> \o EscapeAll(Tail(Tail(s)))
  ELSE EscapeChar(Head(s)) \o EscapeAll(Tail(s))

JsonStringify(s) == <<34>> \o EscapeAll(s) \o <<34>>

(* Loaders *)

ArrayLoader(p, code) == [path |-> p, code |-> code]

LoaderChainFallbackFirst(first, prev) == prev \o <<first>>

LoaderChainReplace(first, prev) == <<first>>

LoaderChain(first, prev) == <<first>> \o prev

RECURSIVE ChainExists(_, _)
ChainExists(ldr, name) ==
  IF ldr = << >> THEN name \in BackingFiles
  ELSE IF Head(ldr).path = name THEN TRUE
  ELSE ChainExists(Tail(ldr), name)

RECURSIVE ChainCode(_, _)
ChainCode(ldr, name) ==
  IF ldr = << >> THEN DiskCode
  ELSE IF Head(ldr).path = name THEN Head(ldr).code
  ELSE ChainCode(Tail(ldr), name)

(* Lookup results: a TwingSource (code, name, path) or the not-found error. *)

NotFound == [ok |-> FALSE, error |-> "loaderError"]

TwingSource(code, name, path) ==
  [ok |-> TRUE, code |-> code, name |-> name, path |-> path]

(* super.getSourceContext of line 37: the array loader's own lookup, which  *)
(* knows the stored code under its name and leaves the path empty.          *)
superGetSourceContext(entry, name) ==
  IF entry.path = name THEN TwingSource(entry.code, name, << >>) ELSE NotFound

getSourceContextKeepPath(entry, name) == superGetSourceContext(entry, name)

(* Lines 36-39: the awaited lookup rejects unchanged, or the source is      *)
(* rebuilt with the requested name as its path.                             *)
getSourceContext(entry, name) ==
  LET source == superGetSourceContext(entry, name) IN
  IF source.ok THEN TwingSource(source.code, source.name, name) ELSE source

(* The chain of lines 157-162 asks each loader in order and falls through   *)
(* to the next one when a lookup fails; the last one reads the file system. *)
RECURSIVE ChainGetSourceContext(_, _)
ChainGetSourceContext(ldr, name) ==
  IF ldr = << >>
  THEN IF name \in BackingFiles THEN TwingSource(DiskCode, name, name) ELSE NotFound
  ELSE LET r == getSourceContext(Head(ldr), name) IN
       IF r.ok THEN r ELSE ChainGetSourceContext(Tail(ldr), name)

(* Generated module text: the list of parts that parts.join('\n') glues.    *)

EnvRequirePart(envPath) == [kind |-> "envRequire", arg |-> slash(envPath)]

Compile(nm) == <<"compiled", nm.source.code>> \o nm.source.name

TemplatesModulePart(compiled) == [kind |-> "templatesModule", arg |-> compiled]

RequirePartsSkipFirst(names) ==
  IF names = << >> THEN << >>
  ELSE [k \in 1..Len(Tail(names)) |-> [kind |-> "require", arg |-> slash(Tail(names)[k])]]

RequireParts(names) ==
  [k \in 1..Len(names) |-> [kind |-> "require", arg |-> slash(names[k])]]

RegisterPart(key) == [kind |-> "register", arg |-> key]

RenderFunctionPart(key) == [kind |-> "renderTemplate", arg |-> key]

PrecompilePartsRegisterFirst(first, compiled, names, key) ==
  first \o <<TemplatesModulePart(compiled)>> \o <<RegisterPart(key)>>
    \o RequireParts(names) \o <<RenderFunctionPart(key)>>

PrecompileParts(first, compiled, names, key) ==
  first \o <<TemplatesModulePart(compiled)>> \o RequireParts(names)
    \o <<RegisterPart(key)>> \o <<RenderFunctionPart(key)>>

RenderModuleText(rendered) ==
  <<[kind |-> "moduleExports", arg |-> JsonStringify(rendered)]>>

(* Dependency Visitor (./visitor): the distinct referenced names in the     *)
(* order of first discovery, or a rejection when a reference cannot be      *)
(* resolved through the loader the visitor was given.                       *)

RECURSIVE Dedup(_, _)
Dedup(refs, seen) ==
  IF refs = << >> THEN << >>
  ELSE IF Head(refs) \in seen THEN Dedup(Tail(refs), seen)
  ELSE <<Head(refs)>> \o Dedup(Tail(refs), seen \cup {Head(refs)})

VisitorResolvable(ldr, refs) == \A k \in 1..Len(refs) : ChainExists(ldr, refs[k])

getTemplateNames(ldr, nm) ==
  IF VisitorResolvable(ldr, nm.refs)
  THEN [st |-> "fulfilled", names |-> Dedup(nm.refs, {})]
  ELSE [st |-> "rejected", names |-> << >>]

RefSeqs ==
  UNION {[1..n -> RefNames] : n \in 0..MaxRefs}

(* ------------------------------- state --------------------------------- *)

VARIABLES
  variant,      \* which version of the loader function runs
  syncThrown,   \* whether the loader function threw synchronously to the host
  mode,         \* this.mode of the compilation
  envLoader,    \* the Environment's active loader
  listeners,    \* invocations whose 'template' listener is subscribed
  emitted,      \* 'template' notifications each invocation's render caused
  pc,           \* where each invocation of the loader function is
  inp,          \* resourcePath, source, renderContext of each invocation
  twingLoader,  \* environment.getLoader() captured at setup
  newLoader,    \* environment.getLoader() captured after setLoader
  nodeModule,   \* environment.parse(environment.tokenize(sourceContext))
  visitorP,     \* the promise of visitor.getTemplateNames
  thenP,        \* the promise returned by .then(...) in precompile mode
  renderP,      \* the promise of environment.render
  parts,        \* parts[] of the precompile path
  tasks,        \* addDependencyTasks
  joined,       \* how many tasks Promise.all(addDependencyTasks) took
  deps,         \* this.addDependency calls, in order
  cb,           \* callback calls, in order
  seen,         \* how many notifications the listener had received at the callback
  steps         \* engine and host calls made by the invocation, in order
                \* (a call that threw is logged with the suffix :throw)

vars ==
  <<variant, syncThrown, mode, envLoader, listeners, emitted, pc, inp, twingLoader, newLoader,
    nodeModule, visitorP, thenP, renderP, parts, tasks, joined, deps, cb, seen, steps>>

NoInput == [resourcePath |-> << >>, source |-> "", renderContext |-> "absent"]

NoModule == [source |-> [code |-> "", name |-> << >>], refs |-> << >>]

NoPromise == [st |-> "none", names |-> << >>]

NoRender == [st |-> "none", value |-> << >>]

InitShared ==
  /\ syncThrown = [i \in Invs |-> FALSE]
  /\ mode \in Modes
  /\ envLoader = << >>
  /\ listeners = << >>
  /\ emitted = [i \in Invs |-> 0]
  /\ pc = [i \in Invs |-> "idle"]
  /\ inp = [i \in Invs |-> NoInput]
  /\ twingLoader = [i \in Invs |-> << >>]
  /\ newLoader = [i \in Invs |-> << >>]
  /\ nodeModule = [i \in Invs |-> NoModule]
  /\ visitorP = [i \in Invs |-> NoPromise]
  /\ thenP = [i \in Invs |-> "none"]
  /\ renderP = [i \in Invs |-> NoRender]
  /\ parts = [i \in Invs |-> << >>]
  /\ tasks = [i \in Invs |-> << >>]
  /\ joined = [i \in Invs |-> 0]
  /\ deps = [i \in Invs |-> << >>]
  /\ cb = [i \in Invs |-> << >>]
  /\ seen = [i \in Invs |-> 0]
  /\ steps = [i \in Invs |-> << >>]

Init == variant = "index" /\ InitShared

RECURSIVE TotalEmitted(_)
TotalEmitted(n) == IF n = 0 THEN 0 ELSE emitted[n] + TotalEmitted(n - 1)

Subscribed(j) == \E k \in 1..Len(listeners) : listeners[k] = j

callback(i, error, text) == Append(cb[i], [error |-> error, text |-> text])

(* ------------------------------ actions -------------------------------- *)

SetupSteps == <<"getOptions", "validateOptions", "addDependency", "require", "getLoader">>

(* part_000 / part_001 lines 48-60: option validation, dependency           *)
(* declaration and the Environment's require run outside any try, so a      *)
(* failure leaves the loader function as a synchronous exception.           *)
SetupThrows(i, outcome) ==
  /\ outcome \in {"optionsInvalid", "requireFail"}
  /\ deps' = [deps EXCEPT ![i] =
       IF outcome = "optionsInvalid" THEN @ ELSE Append(@, slash(EnvModulePath))]
  /\ steps' = [steps EXCEPT ![i] =
       IF outcome = "optionsInvalid"
       THEN <<"getOptions", "validateOptions:throw">>
       ELSE <<"getOptions", "validateOptions", "addDependency", "require:throw">>]
  /\ syncThrown' = [syncThrown EXCEPT ![i] = TRUE]
  /\ pc' = [pc EXCEPT ![i] = "done"]
  /\ UNCHANGED <<cb, envLoader, listeners, twingLoader, newLoader, nodeModule,
                 visitorP, thenP, renderP, parts>>

SetupFailedThrows(i, outcome) == SetupThrows(i, outcome)

SetupFailedLateDeclare(i, outcome) ==
  /\ outcome \in {"optionsInvalid", "requireFail"}
  /\ deps' = deps
  /\ steps' = [steps EXCEPT ![i] =
       IF outcome = "optionsInvalid"
       THEN <<"getOptions", "validateOptions:throw", "callback">>
       ELSE <<"getOptions", "validateOptions", "require:throw", "callback">>]
  /\ cb' = [cb EXCEPT ![i] = callback(i, outcome, NoText)]
  /\ pc' = [pc EXCEPT ![i] = "done"]
  /\ UNCHANGED <<syncThrown, envLoader, listeners, twingLoader, newLoader, nodeModule,
                 visitorP, thenP, renderP, parts>>

(* Lines 56-74: option validation, dependency declaration, Environment.     *)
SetupFailed(i, outcome) ==
  /\ outcome \in {"optionsInvalid", "requireFail"}
  /\ deps' = [deps EXCEPT ![i] =
       IF outcome = "optionsInvalid" THEN @ ELSE Append(@, slash(EnvModulePath))]
  /\ steps' = [steps EXCEPT ![i] =
       IF outcome = "optionsInvalid"
       THEN <<"getOptions", "validateOptions:throw", "callback">>
       ELSE <<"getOptions", "validateOptions", "addDependency", "require:throw", "callback">>]
  /\ cb' = [cb EXCEPT ![i] = callback(i, outcome, NoText)]
  /\ pc' = [pc EXCEPT ![i] = "done"]
  /\ UNCHANGED <<syncThrown, envLoader, listeners, twingLoader, newLoader, nodeModule,
                 visitorP, thenP, renderP, parts>>

PrecompileStartLateDeclare(i, resourcePath, source, outcome, refs) ==
  LET key == getTemplateHash(mode, resourcePath)
      sourceContext == [code |-> source, name |-> key]
      nm == [source |-> sourceContext, refs |-> refs]
  IN
  /\ outcome \in {"ok", "tokenizeFail", "parseFail"}
  /\ deps' = [deps EXCEPT ![i] =
       IF outcome = "ok" THEN Append(@, slash(EnvModulePath)) ELSE @]
  /\ twingLoader' = [twingLoader EXCEPT ![i] = envLoader]
  /\ parts' = [parts EXCEPT ![i] = <<EnvRequirePart(EnvModulePath)>>]
  /\ IF outcome = "ok"
     THEN /\ nodeModule' = [nodeModule EXCEPT ![i] = nm]
          /\ visitorP' = [visitorP EXCEPT ![i] = [st |-> "pending", names |-> << >>]]
          /\ thenP' = [thenP EXCEPT ![i] = "pending"]
          /\ steps' = [steps EXCEPT ![i] =
               SetupSteps \o <<"tokenize", "parse", "getTemplateNames">>]
          /\ pc' = [pc EXCEPT ![i] = "visiting"]
          /\ cb' = cb
     ELSE /\ steps' = [steps EXCEPT ![i] =
               IF outcome = "tokenizeFail"
               THEN SetupSteps \o <<"tokenize:throw", "callback">>
               ELSE SetupSteps \o <<"tokenize", "parse:throw", "callback">>]
          /\ cb' = [cb EXCEPT ![i] = callback(i, outcome, NoText)]
          /\ pc' = [pc EXCEPT ![i] = "done"]
          /\ UNCHANGED <<nodeModule, visitorP, thenP>>
  /\ UNCHANGED <<syncThrown, envLoader, listeners, newLoader, renderP>>

(* Lines 76-102: the synchronous part of the precompile path.               *)
PrecompileStartInstalls(i, resourcePath, source, outcome, refs) ==
  LET key == getTemplateHash(mode, resourcePath)
      sourceContext == [code |-> source, name |-> key]
      nm == [source |-> sourceContext, refs |-> refs]
  IN
  /\ outcome \in {"ok", "tokenizeFail", "parseFail"}
  /\ deps' = [deps EXCEPT ![i] = Append(@, slash(EnvModulePath))]
  /\ twingLoader' = [twingLoader EXCEPT ![i] = envLoader]
  /\ parts' = [parts EXCEPT ![i] = <<EnvRequirePart(EnvModulePath)>>]
  /\ IF outcome = "ok"
     THEN /\ nodeModule' = [nodeModule EXCEPT ![i] = nm]
          /\ visitorP' = [visitorP EXCEPT ![i] = [st |-> "pending", names |-> << >>]]
          /\ thenP' = [thenP EXCEPT ![i] = "pending"]
          /\ steps' = [steps EXCEPT ![i] =
               SetupSteps \o <<"tokenize", "parse", "getTemplateNames">>]
          /\ pc' = [pc EXCEPT ![i] = "visiting"]
          /\ cb' = cb
     ELSE /\ steps' = [steps EXCEPT ![i] =
               IF outcome = "tokenizeFail"
               THEN SetupSteps \o <<"tokenize:throw", "callback">>
               ELSE SetupSteps \o <<"tokenize", "parse:throw", "callback">>]
          /\ cb' = [cb EXCEPT ![i] = callback(i, outcome, NoText)]
          /\ pc' = [pc EXCEPT ![i] = "done"]
          /\ UNCHANGED <<nodeModule, visitorP, thenP>>
  /\ envLoader' = LoaderChain(ArrayLoader(resourcePath, source), envLoader)
  /\ UNCHANGED <<syncThrown, listeners, newLoader, renderP>>

PrecompileStart(i, resourcePath, source, outcome, refs) ==
  LET key == getTemplateHash(mode, resourcePath)
      sourceContext == [code |-> source, name |-> key]
      nm == [source |-> sourceContext, refs |-> refs]
  IN
  /\ outcome \in {"ok", "tokenizeFail", "parseFail"}
  /\ deps' = [deps EXCEPT ![i] = Append(@, slash(EnvModulePath))]
  /\ twingLoader' = [twingLoader EXCEPT ![i] = envLoader]
  /\ parts' = [parts EXCEPT ![i] = <<EnvRequirePart(EnvModulePath)>>]
  /\ IF outcome = "ok"
     THEN /\ nodeModule' = [nodeModule EXCEPT ![i] = nm]
          /\ visitorP' = [visitorP EXCEPT ![i] = [st |-> "pending", names |-> << >>]]
          /\ thenP' = [thenP EXCEPT ![i] = "pending"]
          /\ steps' = [steps EXCEPT ![i] =
               SetupSteps \o <<"tokenize", "parse", "getTemplateNames">>]
          /\ pc' = [pc EXCEPT ![i] = "visiting"]
          /\ cb' = cb
     ELSE /\ steps' = [steps EXCEPT ![i] =
               IF outcome = "tokenizeFail"
               THEN SetupSteps \o <<"tokenize:throw", "callback">>
               ELSE SetupSteps \o <<"tokenize", "parse:throw", "callback">>]
          /\ cb' = [cb EXCEPT ![i] = callback(i, outcome, NoText)]
          /\ pc' = [pc EXCEPT ![i] = "done"]
          /\ UNCHANGED <<nodeModule, visitorP, thenP>>
  /\ UNCHANGED <<syncThrown, envLoader, listeners, newLoader, renderP>>

(* Line 165: environment.on('template', listener)                           *)
onNever(ls, i) == ls

on(ls, i) == Append(ls, i)

(* Lines 153-177: the synchronous part of the render path.                  *)
RenderStart(i, resourcePath, source, outcome) ==
  LET chain == LoaderChain(ArrayLoader(resourcePath, source), envLoader) IN
  /\ outcome \in {"ok", "setLoaderFail", "onFail"}
  /\ deps' = [deps EXCEPT ![i] = Append(@, slash(EnvModulePath))]
  /\ twingLoader' = [twingLoader EXCEPT ![i] = envLoader]
  /\ envLoader' = IF outcome = "setLoaderFail" THEN envLoader ELSE chain
  /\ newLoader' = [newLoader EXCEPT ![i] =
       IF outcome = "setLoaderFail" THEN @ ELSE chain]
  /\ listeners' = IF outcome = "ok" THEN on(listeners, i) ELSE listeners
  /\ IF outcome = "ok"
     THEN /\ renderP' = [renderP EXCEPT ![i] = [st |-> "pending", value |-> << >>]]
          /\ steps' = [steps EXCEPT ![i] = SetupSteps \o <<"setLoader", "on", "render">>]
          /\ pc' = [pc EXCEPT ![i] = "rendering"]
          /\ cb' = cb
     ELSE /\ steps' = [steps EXCEPT ![i] =
               IF outcome = "setLoaderFail"
               THEN SetupSteps \o <<"setLoader:throw", "callback">>
               ELSE SetupSteps \o <<"setLoader", "on:throw", "callback">>]
          /\ cb' = [cb EXCEPT ![i] = callback(i, outcome, NoText)]
          /\ pc' = [pc EXCEPT ![i] = "done"]
          /\ renderP' = renderP
  /\ UNCHANGED <<syncThrown, nodeModule, visitorP, thenP, parts>>

(* Line 76: renderContext === undefined                                     *)
PrecompileModeFalsy(ctx) == ctx \in {"absent", "empty"}

PrecompileMode(ctx) == ctx = "absent"

(* Lines 42-102 / 42-177: one call of the loader function by the host, up   *)
(* to its first asynchronous boundary.                                      *)
Start(i) ==
  /\ pc[i] = "idle"
  /\ \A j \in Invs : j < i => pc[j] # "idle"
  /\ \E raw \in RawResourcePaths, source \in Sources, ctx \in RenderContexts,
        outcome \in SetupOutcomes, refs \in RefSeqs :
       LET resourcePath == slash(raw) IN
       /\ inp' = [inp EXCEPT ![i] =
            [resourcePath |-> resourcePath, source |-> source, renderContext |-> ctx]]
       /\ IF outcome \in {"optionsInvalid", "requireFail"}
          THEN SetupFailed(i, outcome)
          ELSE IF PrecompileMode(ctx)
          THEN PrecompileStart(i, resourcePath, source, outcome, refs)
          ELSE RenderStart(i, resourcePath, source, outcome)
  /\ UNCHANGED <<variant, mode, emitted, tasks, joined, seen>>

(* The visitor's promise settles (lines 101-102).                           *)
VisitorSettle(i) ==
  /\ pc[i] = "visiting"
  /\ visitorP[i].st = "pending"
  /\ visitorP' = [visitorP EXCEPT ![i] = getTemplateNames(twingLoader[i], nodeModule[i])]
  /\ UNCHANGED <<variant, syncThrown, mode, envLoader, listeners, emitted, pc, inp, twingLoader, newLoader,
                 nodeModule, thenP, renderP, parts, tasks, joined, deps, cb, steps, seen>>

(* Line 103: .then runs its handler once the visitor's promise fulfilled.   *)
VisitorDoneEager(i) == visitorP[i].st \in {"pending", "fulfilled"}

VisitorDone(i) == visitorP[i].st = "fulfilled"

PrecompileThenSwallow(i) ==
  /\ pc[i] = "visiting"
  /\ VisitorDone(i)
  /\ thenP[i] = "pending"
  /\ \E compileOk \in BOOLEAN :
       LET key == getTemplateHash(mode, inp[i].resourcePath)
           foundTemplateNames == visitorP[i].names
           precompiledTemplate == Compile(nodeModule[i])
           text == PrecompileParts(parts[i], precompiledTemplate, foundTemplateNames, key)
       IN
       IF compileOk
       THEN /\ parts' = [parts EXCEPT ![i] = text]
            /\ cb' = [cb EXCEPT ![i] = callback(i, NoError, text)]
            /\ steps' = [steps EXCEPT ![i] = @ \o <<"compile", "callback">>]
            /\ thenP' = [thenP EXCEPT ![i] = "fulfilled"]
            /\ pc' = [pc EXCEPT ![i] = "done"]
       ELSE /\ parts' = [parts EXCEPT ![i] = text]
            /\ cb' = [cb EXCEPT ![i] = callback(i, NoError, text)]
            /\ steps' = [steps EXCEPT ![i] = @ \o <<"compile:throw", "callback">>]
            /\ thenP' = [thenP EXCEPT ![i] = "fulfilled"]
            /\ pc' = [pc EXCEPT ![i] = "done"]
  /\ seen' = [seen EXCEPT ![i] = IF Len(cb'[i]) > Len(cb[i]) THEN Len(tasks[i]) ELSE @]
  /\ UNCHANGED <<variant, syncThrown, mode, envLoader, listeners, emitted, inp, twingLoader, newLoader,
                 nodeModule, visitorP, renderP, tasks, joined, deps>>

(* Lines 103-146: the .then handler of the precompile path.                 *)
PrecompileThen(i) ==
  /\ pc[i] = "visiting"
  /\ VisitorDone(i)
  /\ thenP[i] = "pending"
  /\ \E compileOk \in BOOLEAN :
       LET key == getTemplateHash(mode, inp[i].resourcePath)
           foundTemplateNames == visitorP[i].names
           precompiledTemplate == Compile(nodeModule[i])
           text == PrecompileParts(parts[i], precompiledTemplate, foundTemplateNames, key)
       IN
       IF compileOk
       THEN /\ parts' = [parts EXCEPT ![i] = text]
            /\ cb' = [cb EXCEPT ![i] = callback(i, NoError, text)]
            /\ steps' = [steps EXCEPT ![i] = @ \o <<"compile", "callback">>]
            /\ thenP' = [thenP EXCEPT ![i] = "fulfilled"]
            /\ pc' = [pc EXCEPT ![i] = "done"]
       ELSE /\ steps' = [steps EXCEPT ![i] = Append(@, "compile:throw")]
            /\ thenP' = [thenP EXCEPT ![i] = "rejected"]
            /\ UNCHANGED <<parts, cb, pc>>
  /\ seen' = [seen EXCEPT ![i] = IF Len(cb'[i]) > Len(cb[i]) THEN Len(tasks[i]) ELSE @]
  /\ UNCHANGED <<variant, syncThrown, mode, envLoader, listeners, emitted, inp, twingLoader, newLoader,
                 nodeModule, visitorP, renderP, tasks, joined, deps>>

(* Lines 148-151: the .catch handler of the precompile path.                *)
PrecompileCatch(i) ==
  /\ pc[i] = "visiting"
  /\ \/ visitorP[i].st = "rejected" /\ thenP[i] = "pending"
     \/ thenP[i] = "rejected"
  /\ cb' = [cb EXCEPT ![i] =
       callback(i, IF thenP[i] = "rejected" THEN "compileFail" ELSE "visitorRejected", NoText)]
  /\ steps' = [steps EXCEPT ![i] = Append(@, "callback")]
  /\ thenP' = [thenP EXCEPT ![i] = "rejected"]
  /\ pc' = [pc EXCEPT ![i] = "done"]
  /\ seen' = [seen EXCEPT ![i] = IF Len(cb'[i]) > Len(cb[i]) THEN Len(tasks[i]) ELSE @]
  /\ UNCHANGED <<variant, syncThrown, mode, envLoader, listeners, emitted, inp, twingLoader, newLoader,
                 nodeModule, visitorP, renderP, parts, tasks, joined, deps>>

(* Lines 165-170: the Environment emits 'template' while invocation i's     *)
(* render is running; every subscribed listener pushes a task.              *)
Emit(i, name) ==
  /\ pc[i] = "rendering"
  /\ renderP[i].st = "pending"
  /\ TotalEmitted(MaxInv) < MaxEmits
  /\ emitted' = [emitted EXCEPT ![i] = @ + 1]
  /\ tasks' = [j \in Invs |->
       IF Subscribed(j)
       THEN Append(tasks[j], [name |-> name, by |-> i, st |-> "pending"])
       ELSE tasks[j]]
  /\ UNCHANGED <<variant, syncThrown, mode, envLoader, listeners, pc, inp, twingLoader, newLoader,
                 nodeModule, visitorP, thenP, renderP, parts, joined, deps, cb, steps, seen>>

(* Lines 167-168: newLoader.resolve(name, from).then(path => addDependency) *)
TaskSettle(j, k) ==
  /\ k \in 1..Len(tasks[j])
  /\ tasks[j][k].st = "pending"
  /\ IF ChainExists(newLoader[j], tasks[j][k].name)
     THEN /\ tasks' = [tasks EXCEPT ![j][k].st = "fulfilled"]
          /\ deps' = [deps EXCEPT ![j] = Append(@, tasks[j][k].name)]
     ELSE /\ tasks' = [tasks EXCEPT ![j][k].st = "rejected"]
          /\ deps' = deps
  /\ UNCHANGED <<variant, syncThrown, mode, envLoader, listeners, emitted, pc, inp, twingLoader, newLoader,
                 nodeModule, visitorP, thenP, renderP, parts, joined, cb, steps, seen>>

(* The promise of environment.render settles (lines 176-177).               *)
RenderSettle(i) ==
  /\ pc[i] = "rendering"
  /\ renderP[i].st = "pending"
  /\ \E ok \in BOOLEAN, rendered \in RenderedTexts :
       renderP' = [renderP EXCEPT ![i] =
         IF ok THEN [st |-> "fulfilled", value |-> rendered]
         ELSE [st |-> "rejected", value |-> << >>]]
  /\ UNCHANGED <<variant, syncThrown, mode, envLoader, listeners, emitted, pc, inp, twingLoader, newLoader,
                 nodeModule, visitorP, thenP, parts, tasks, joined, deps, cb, steps, seen>>

(* Lines 178-180: the async .then handler starts and awaits                 *)
(* Promise.all(addDependencyTasks) over the tasks pushed so far.            *)
RenderThen(i) ==
  /\ pc[i] = "rendering"
  /\ renderP[i].st = "fulfilled"
  /\ joined' = [joined EXCEPT ![i] = Len(tasks[i])]
  /\ steps' = [steps EXCEPT ![i] = Append(@, "Promise.all")]
  /\ pc' = [pc EXCEPT ![i] = "joining"]
  /\ UNCHANGED <<variant, syncThrown, mode, envLoader, listeners, emitted, inp, twingLoader, newLoader,
                 nodeModule, visitorP, thenP, renderP, parts, tasks, deps, cb, seen>>

(* Line 181: every awaited task fulfilled.                                  *)
JoinFulfilled(i) ==
  /\ pc[i] = "joining"
  /\ \A k \in 1..joined[i] : tasks[i][k].st = "fulfilled"
  /\ cb' = [cb EXCEPT ![i] = callback(i, NoError, RenderModuleText(renderP[i].value))]
  /\ steps' = [steps EXCEPT ![i] = Append(@, "callback")]
  /\ pc' = [pc EXCEPT ![i] = "done"]
  /\ seen' = [seen EXCEPT ![i] = IF Len(cb'[i]) > Len(cb[i]) THEN Len(tasks[i]) ELSE @]
  /\ UNCHANGED <<variant, syncThrown, mode, envLoader, listeners, emitted, inp, twingLoader, newLoader,
                 nodeModule, visitorP, thenP, renderP, parts, tasks, joined, deps>>

JoinRejectedRethrow(i) ==
  /\ pc[i] = "joining"
  /\ \E k \in 1..joined[i] : tasks[i][k].st = "rejected"
  /\ cb' = [cb EXCEPT ![i] =
       Append(callback(i, "resolveRejected", NoText),
              [error |-> "resolveRejected", text |-> NoText])]
  /\ steps' = [steps EXCEPT ![i] = Append(@, "callback")]
  /\ pc' = [pc EXCEPT ![i] = "done"]
  /\ seen' = [seen EXCEPT ![i] = IF Len(cb'[i]) > Len(cb[i]) THEN Len(tasks[i]) ELSE @]
  /\ UNCHANGED <<variant, syncThrown, mode, envLoader, listeners, emitted, inp, twingLoader, newLoader,
                 nodeModule, visitorP, thenP, renderP, parts, tasks, joined, deps>>

(* Lines 182-184: an awaited task rejected.                                 *)
JoinRejected(i) ==
  /\ pc[i] = "joining"
  /\ \E k \in 1..joined[i] : tasks[i][k].st = "rejected"
  /\ cb' = [cb EXCEPT ![i] = callback(i, "resolveRejected", NoText)]
  /\ steps' = [steps EXCEPT ![i] = Append(@, "callback")]
  /\ pc' = [pc EXCEPT ![i] = "done"]
  /\ seen' = [seen EXCEPT ![i] = IF Len(cb'[i]) > Len(cb[i]) THEN Len(tasks[i]) ELSE @]
  /\ UNCHANGED <<variant, syncThrown, mode, envLoader, listeners, emitted, inp, twingLoader, newLoader,
                 nodeModule, visitorP, thenP, renderP, parts, tasks, joined, deps>>

(* Lines 187-190: the .catch handler of the render path.                    *)
RenderCatch(i) ==
  /\ pc[i] = "rendering"
  /\ renderP[i].st = "rejected"
  /\ cb' = [cb EXCEPT ![i] = callback(i, "renderRejected", NoText)]
  /\ steps' = [steps EXCEPT ![i] = Append(@, "callback")]
  /\ pc' = [pc EXCEPT ![i] = "done"]
  /\ seen' = [seen EXCEPT ![i] = IF Len(cb'[i]) > Len(cb[i]) THEN Len(tasks[i]) ELSE @]
  /\ UNCHANGED <<variant, syncThrown, mode, envLoader, listeners, emitted, inp, twingLoader, newLoader,
                 nodeModule, visitorP, thenP, renderP, parts, tasks, joined, deps>>

Next ==
  \/ \E i \in Invs : Start(i)
  \/ \E i \in Invs : VisitorSettle(i)
  \/ \E i \in Invs : PrecompileThen(i)
  \/ \E i \in Invs : PrecompileCatch(i)
  \/ \E i \in Invs, name \in NotifiedNames : Emit(i, name)
  \/ \E j \in Invs, k \in 1..MaxEmits : TaskSettle(j, k)
  \/ \E i \in Invs : RenderSettle(i)
  \/ \E i \in Invs : RenderThen(i)
  \/ \E i \in Invs : JoinFulfilled(i)
  \/ \E i \in Invs : JoinRejected(i)
  \/ \E i \in Invs : RenderCatch(i)

Spec == Init /\ [][Next]_vars

(* ---- the loader variants of src/unnamed/part_000 and part_001 ---------- *)

InitVariants == variant \in {"part_000", "part_001"} /\ InitShared

(* part_001 lines 135-151, part_000 lines 131-146: the synchronous part of  *)
(* the render path; setLoader and on are not inside a try.                  *)
RenderStartV(i, resourcePath, source, outcome) ==
  LET chain == LoaderChain(ArrayLoader(resourcePath, source), envLoader) IN
  /\ outcome \in {"ok", "setLoaderFail", "onFail"}
  /\ deps' = [deps EXCEPT ![i] = Append(@, slash(EnvModulePath))]
  /\ twingLoader' = [twingLoader EXCEPT ![i] = envLoader]
  /\ envLoader' = IF outcome = "setLoaderFail" THEN envLoader ELSE chain
  /\ newLoader' = [newLoader EXCEPT ![i] =
       IF outcome = "setLoaderFail" THEN @ ELSE chain]
  /\ listeners' = IF outcome = "ok" THEN on(listeners, i) ELSE listeners
  /\ IF outcome = "ok"
     THEN /\ renderP' = [renderP EXCEPT ![i] = [st |-> "pending", value |-> << >>]]
          /\ steps' = [steps EXCEPT ![i] = SetupSteps \o <<"setLoader", "on", "render">>]
          /\ pc' = [pc EXCEPT ![i] = "rendering"]
          /\ syncThrown' = syncThrown
     ELSE /\ steps' = [steps EXCEPT ![i] =
               IF outcome = "setLoaderFail"
               THEN SetupSteps \o <<"setLoader:throw">>
               ELSE SetupSteps \o <<"setLoader", "on:throw">>]
          /\ syncThrown' = [syncThrown EXCEPT ![i] = TRUE]
          /\ pc' = [pc EXCEPT ![i] = "done"]
          /\ renderP' = renderP
  /\ UNCHANGED <<cb, nodeModule, visitorP, thenP, parts>>

(* part_001 lines 40-158, part_000 lines 40-151: one call of the loader     *)
(* function by the host, up to its first asynchronous boundary.             *)
StartV(i) ==
  /\ pc[i] = "idle"
  /\ \A j \in Invs : j < i => pc[j] # "idle"
  /\ \E raw \in RawResourcePaths, source \in Sources, ctx \in RenderContexts,
        outcome \in SetupOutcomes, refs \in RefSeqs :
       LET resourcePath == slash(raw) IN
       /\ inp' = [inp EXCEPT ![i] =
            [resourcePath |-> resourcePath, source |-> source, renderContext |-> ctx]]
       /\ IF outcome \in {"optionsInvalid", "requireFail"}
          THEN SetupThrows(i, outcome)
          ELSE IF PrecompileMode(ctx)
          THEN PrecompileStart(i, resourcePath, source, outcome, refs)
          ELSE RenderStartV(i, resourcePath, source, outcome)
  /\ UNCHANGED <<variant, mode, emitted, tasks, joined, seen>>

(* part_001 lines 145-150, part_000 lines 140-145: every subscribed         *)
(* listener starts a resolution; part_000 asks environment.getLoader() at   *)
(* notification time, part_001 the loader it captured when it started.      *)
EmitV(i, name) ==
  /\ pc[i] = "rendering"
  /\ renderP[i].st = "pending"
  /\ TotalEmitted(MaxInv) < MaxEmits
  /\ emitted' = [emitted EXCEPT ![i] = @ + 1]
  /\ tasks' = [j \in Invs |->
       IF Subscribed(j)
       THEN Append(tasks[j],
              [name |-> name, by |-> i, st |-> "pending",
               ldr |-> IF variant = "part_000" THEN envLoader ELSE newLoader[j]])
       ELSE tasks[j]]
  /\ UNCHANGED <<variant, syncThrown, mode, envLoader, listeners, pc, inp, twingLoader,
                 newLoader, nodeModule, visitorP, thenP, renderP, parts, joined, deps,
                 cb, steps, seen>>

(* part_001 lines 147-148, part_000 lines 142-143:                          *)
(* resolve(name, from).then(path => this.addDependency(path))               *)
TaskSettleV(j, k) ==
  /\ k \in 1..Len(tasks[j])
  /\ tasks[j][k].st = "pending"
  /\ IF ChainExists(tasks[j][k].ldr, tasks[j][k].name)
     THEN /\ tasks' = [tasks EXCEPT ![j][k].st = "fulfilled"]
          /\ deps' = [deps EXCEPT ![j] = Append(@, tasks[j][k].name)]
     ELSE /\ tasks' = [tasks EXCEPT ![j][k].st = "rejected"]
          /\ deps' = deps
  /\ UNCHANGED <<variant, syncThrown, mode, envLoader, listeners, emitted, pc, inp,
                 twingLoader, newLoader, nodeModule, visitorP, thenP, renderP, parts,
                 joined, cb, steps, seen>>

(* part_001 lines 152-158, part_000 lines 147-151: the promise of           *)
(* environment.render rejected; the chain has a .then and no .catch, so the *)
(* rejection is unhandled and no code of the invocation runs again.         *)
RenderUnhandled(i) ==
  /\ pc[i] = "rendering"
  /\ renderP[i].st = "rejected"
  /\ steps' = [steps EXCEPT ![i] = Append(@, "unhandledRejection")]
  /\ pc' = [pc EXCEPT ![i] = "abandoned"]
  /\ UNCHANGED <<variant, syncThrown, mode, envLoader, listeners, emitted, inp,
                 twingLoader, newLoader, nodeModule, visitorP, thenP, renderP, parts,
                 tasks, joined, deps, cb, seen>>

(* part_001 line 155, part_000 line 148: await Promise.all rejects inside   *)
(* the async handler, which has no try; the callback line is never reached. *)
JoinUnhandled(i) ==
  /\ pc[i] = "joining"
  /\ \E k \in 1..joined[i] : tasks[i][k].st = "rejected"
  /\ steps' = [steps EXCEPT ![i] = Append(@, "unhandledRejection")]
  /\ pc' = [pc EXCEPT ![i] = "abandoned"]
  /\ UNCHANGED <<variant, syncThrown, mode, envLoader, listeners, emitted, inp,
                 twingLoader, newLoader, nodeModule, visitorP, thenP, renderP, parts,
                 tasks, joined, deps, cb, seen>>

NextVariants ==
  \/ \E i \in Invs : StartV(i)
  \/ \E i \in Invs : VisitorSettle(i)
  \/ \E i \in Invs : PrecompileThen(i)
  \/ \E i \in Invs : PrecompileCatch(i)
  \/ \E i \in Invs, name \in NotifiedNames : EmitV(i, name)
  \/ \E j \in Invs, k \in 1..MaxEmits : TaskSettleV(j, k)
  \/ \E i \in Invs : RenderSettle(i)
  \/ \E i \in Invs : RenderThen(i)
  \/ \E i \in Invs : JoinFulfilled(i)
  \/ \E i \in Invs : JoinUnhandled(i)
  \/ \E i \in Invs : RenderUnhandled(i)

SpecVariants == InitVariants /\ [][NextVariants]_vars

TypeOK ==
  /\ mode \in Modes
  /\ TotalEmitted(MaxInv) \in 0..MaxEmits
  /\ \A i \in Invs :
       /\ pc[i] \in {"idle", "visiting", "rendering", "joining", "done"}
       /\ Len(cb[i]) <= 2
       /\ joined[i] <= Len(tasks[i])

(* ------------------------- auxiliary predicates ------------------------ *)

Has(seq, x) == \E k \in 1..Len(seq) : seq[k] = x

IndexOf(seq, x) == CHOOSE k \in 1..Len(seq) : seq[k] = x

PassedSetup(i) == Has(steps[i], "getLoader")

Succeeded(i) == \E k \in 1..Len(cb[i]) : cb[i][k].error = NoError

Errored(i) == \E k \in 1..Len(cb[i]) : cb[i][k].error # NoError

PrecompileInv(i) == PassedSetup(i) /\ inp[i].renderContext = "absent"

RenderInv(i) == PassedSetup(i) /\ inp[i].renderContext # "absent"

IsPrecompileText(t) ==
  /\ Len(t) >= 4
  /\ t[1].kind = "envRequire"
  /\ \E k \in 1..Len(t) : t[k].kind = "register"
  /\ t[Len(t)].kind = "renderTemplate"

IsRenderText(t, rendered) ==
  /\ Len(t) = 1
  /\ t[1].kind = "moduleExports"
  /\ t[1].arg = JsonStringify(rendered)

RefSet(i) == {nodeModule[i].refs[k] : k \in 1..Len(nodeModule[i].refs)}

RequireIndexes(t) == {k \in 1..Len(t) : t[k].kind = "require"}

CountBy(ts, i) == Cardinality({k \in 1..Len(ts) : ts[k].by = i})

(* ------------------------------- claims -------------------------------- *)

(* C1: mode selection. An invocation that passed setup with renderContext   *)
(* absent runs only the precompile path and its success text is the         *)
(* precompile module; with renderContext present (the empty mapping too) it *)
(* runs only the render path and its success text is the single statement   *)
(* module.exports = JSON.stringify(rendered). Never both paths.             *)
C1_ModeSelection ==
  \A i \in Invs : PassedSetup(i) =>
    /\ inp[i].renderContext = "absent" =>
         /\ Has(steps[i], "tokenize") \/ Has(steps[i], "tokenize:throw")
         /\ ~Has(steps[i], "setLoader") /\ ~Has(steps[i], "setLoader:throw")
         /\ renderP[i].st = "none" /\ ~Subscribed(i)
         /\ \A k \in 1..Len(cb[i]) :
              cb[i][k].error = NoError => IsPrecompileText(cb[i][k].text)
    /\ inp[i].renderContext # "absent" =>
         /\ Has(steps[i], "setLoader") \/ Has(steps[i], "setLoader:throw")
         /\ ~Has(steps[i], "tokenize") /\ ~Has(steps[i], "tokenize:throw")
         /\ visitorP[i].st = "none" /\ parts[i] = << >>
         /\ \A k \in 1..Len(cb[i]) :
              cb[i][k].error = NoError => IsRenderText(cb[i][k].text, renderP[i].value)

C1_Witness ==
  \E i, j \in Invs :
    /\ inp[i].renderContext = "absent" /\ Succeeded(i)
    /\ inp[j].renderContext = "empty" /\ Succeeded(j)
    /\ cb[j][1].text[1].arg =
         <<34, 104, 92, 34, 92, 110, 92, 116, 92, 117, 48, 48, 48, 49,
           55357, 56832, 92, 117, 100, 56, 48, 48, 34>>

(* C2: whatever the engine calls do, the host callback of an invocation is  *)
(* invoked at most once, and an invocation that reports an error delivers   *)
(* no module text.                                                          *)
C2_CallbackAtMostOnce ==
  \A i \in Invs :
    /\ Len(cb[i]) <= 1
    /\ \A k, l \in 1..Len(cb[i]) :
         ~(cb[i][k].error # NoError /\ cb[i][l].text # NoText)

C2_Witness ==
  \E i, j \in Invs :
    /\ pc[i] = "done" /\ Errored(i) /\ cb[i][1].error = "resolveRejected"
    /\ pc[j] = "done" /\ Errored(j) /\ cb[j][1].error = "compileFail"

(* C3: in precompile mode environment.compile, every part after the first   *)
(* and the success callback happen only once the visitor's promise has      *)
(* fulfilled, and getTemplateNames was called before compile.               *)
C3_VisitorBeforeCompile ==
  \A i \in Invs : PrecompileInv(i) =>
    /\ (\/ Has(steps[i], "compile") \/ Has(steps[i], "compile:throw")
        \/ Len(parts[i]) > 1
        \/ Succeeded(i))
         => /\ visitorP[i].st = "fulfilled"
            /\ Has(steps[i], "getTemplateNames")
            /\ \A k \in 1..Len(steps[i]) :
                 steps[i][k] \in {"compile", "compile:throw", "callback"}
                   => IndexOf(steps[i], "getTemplateNames") < k
    /\ visitorP[i].st = "pending" => cb[i] = << >> /\ Len(parts[i]) = 1

C3_Witness ==
  \E i \in Invs :
    /\ PrecompileInv(i) /\ Succeeded(i)
    /\ Len(visitorP[i].names) = 2

(* C4: dependency completeness. A template that references N distinct       *)
(* templates gets exactly N require statements in its module, one per       *)
(* distinct dependency, all before the registerTemplatesModule statement.   *)
C4_DependencyCompleteness ==
  \A i \in Invs : (PrecompileInv(i) /\ Succeeded(i)) =>
    LET t == cb[i][1].text
        reg == IndexOf([k \in 1..Len(t) |-> t[k].kind], "register")
    IN
    /\ Cardinality(RequireIndexes(t)) = Cardinality(RefSet(i))
    /\ {t[k].arg : k \in RequireIndexes(t)} = {slash(r) : r \in RefSet(i)}
    /\ \A k \in RequireIndexes(t) : k < reg

C4_Witness ==
  \E i, j \in Invs :
    /\ PrecompileInv(i) /\ Succeeded(i)
    /\ Len(nodeModule[i].refs) = 2 /\ Cardinality(RefSet(i)) = 1
    /\ PrecompileInv(j) /\ Succeeded(j)
    /\ Cardinality(RefSet(j)) = 2

(* C5: the precompile module is, in this order: the Environment require,    *)
(* the templatesModule evaluation of the compiled fragment, one require per *)
(* name in the order the visitor returned them, the registration under the  *)
(* template's key, the exported render function; for every number of names. *)
C5_PartsOrder ==
  \A i \in Invs : (PrecompileInv(i) /\ Succeeded(i)) =>
    LET t == cb[i][1].text
        names == visitorP[i].names
        n == Len(names)
        key == getTemplateHash(mode, inp[i].resourcePath)
    IN
    /\ Len(t) = n + 4
    /\ t[1] = [kind |-> "envRequire", arg |-> slash(EnvModulePath)]
    /\ t[2].kind = "templatesModule"
    /\ t[2].arg = <<"compiled", inp[i].source>> \o key
    /\ \A k \in 1..n : t[2 + k] = [kind |-> "require", arg |-> slash(names[k])]
    /\ t[n + 3] = [kind |-> "register", arg |-> key]
    /\ t[n + 4] = [kind |-> "renderTemplate", arg |-> key]

C5_Witness ==
  \E i, j \in Invs :
    /\ PrecompileInv(i) /\ Succeeded(i) /\ visitorP[i].names = << >>
    /\ PrecompileInv(j) /\ Succeeded(j)
    /\ visitorP[j].names = <<slash(PathB), slash(PathA)>>

(* C6: in render mode the loader chain is installed and the 'template'      *)
(* listener subscribed before environment.render is called: once render has *)
(* been called the override heads the invocation's chain and is part of the *)
(* active loader, and every notification this render caused reached the     *)
(* invocation's listener.                                                   *)
C6_InstallAndSubscribeBeforeRender ==
  \A i \in Invs : renderP[i].st # "none" =>
    /\ Subscribed(i)
    /\ newLoader[i] # << >>
    /\ Head(newLoader[i]) = [path |-> inp[i].resourcePath, code |-> inp[i].source]
    /\ Has(envLoader, Head(newLoader[i]))
    /\ IndexOf(steps[i], "setLoader") < IndexOf(steps[i], "on")
    /\ IndexOf(steps[i], "on") < IndexOf(steps[i], "render")
    /\ CountBy(tasks[i], i) = emitted[i]

C6_Witness ==
  \E i \in Invs :
    /\ renderP[i].st = "pending"
    /\ emitted[i] = 2
    /\ CountBy(tasks[i], i) = 2

(* C7: in render mode the success callback runs only after every            *)
(* resolve-and-report obligation completed: each notification the           *)
(* invocation's listener received before the success callback has had its   *)
(* addDependency call by then.                                              *)
C7_AllObligationsBeforeSuccess ==
  \A i \in Invs : (RenderInv(i) /\ Succeeded(i)) =>
    \A k \in 1..seen[i] : tasks[i][k].st = "fulfilled"

(* C8: override precedence for serialized render-mode invocations: while    *)
(* the current invocation renders (every earlier invocation is over, no     *)
(* later one has started), the active loader serves the invocation's own    *)
(* source text for its resource path, not the backing loader's file and not *)
(* the text of an earlier invocation.                                       *)
C8_OverridePrecedence ==
  \A i \in Invs :
    (/\ renderP[i].st = "pending"
     /\ \A j \in Invs : j # i => IF j < i THEN pc[j] = "done" ELSE pc[j] = "idle")
      => /\ ChainExists(envLoader, inp[i].resourcePath)
         /\ ChainCode(envLoader, inp[i].resourcePath) = inp[i].source

C8_Witness ==
  \E i, j \in Invs :
    /\ j < i
    /\ RenderInv(j) /\ pc[j] = "done" /\ Succeeded(j)
    /\ renderP[i].st = "pending"
    /\ inp[i].resourcePath = inp[j].resourcePath
    /\ inp[i].source # inp[j].source
    /\ emitted[i] > 0

(* C9: in render mode a failure of setLoader, of the subscription, of       *)
(* environment.render or of any dependency-resolution obligation ends the   *)
(* invocation with exactly one callback, which carries the error and no     *)
(* module text.                                                             *)
C9_RenderFailureReported ==
  \A i \in Invs : (RenderInv(i) /\ pc[i] = "done") =>
    LET failed ==
          \/ Has(steps[i], "setLoader:throw")
          \/ Has(steps[i], "on:throw")
          \/ renderP[i].st = "rejected"
          \/ \E k \in 1..seen[i] : tasks[i][k].st = "rejected"
    IN failed => /\ Len(cb[i]) = 1
                 /\ cb[i][1].error # NoError
                 /\ cb[i][1].text = NoText

(* C10: in precompile mode a failure of tokenize, parse, the visitor's      *)
(* promise or compile ends in exactly one callback, with the error and no   *)
(* module text, and no step after the failing one runs except that callback. *)
C10_PrecompileFailureReported ==
  \A i \in Invs : PrecompileInv(i) =>
    LET thrown == {x \in {"tokenize:throw", "parse:throw", "compile:throw"} :
                     Has(steps[i], x)}
        failed == thrown # {} \/ visitorP[i].st = "rejected"
    IN
    /\ (failed /\ pc[i] = "done") =>
         /\ Len(cb[i]) = 1
         /\ cb[i][1].error # NoError
         /\ cb[i][1].text = NoText
         /\ Len(parts[i]) = 1
    /\ failed => ~Succeeded(i)
    /\ (failed /\ cb[i] = << >>) => ENABLED PrecompileCatch(i)
    /\ \A x \in thrown : \A k \in 1..Len(steps[i]) :
         k > IndexOf(steps[i], x) => steps[i][k] = "callback"
    /\ visitorP[i].st = "rejected" =>
         ~Has(steps[i], "compile") /\ ~Has(steps[i], "compile:throw")

C10_Witness ==
  \E i, j \in Invs :
    /\ PrecompileInv(i) /\ pc[i] = "done" /\ cb[i][1].error = "visitorRejected"
    /\ PrecompileInv(j) /\ pc[j] = "done" /\ cb[j][1].error = "compileFail"

(* C11: a setup failure (options rejected by the schema, Environment module *)
(* that cannot be loaded) is reported once through the callback as an error *)
(* and is not thrown synchronously; neither the precompile nor the render   *)
(* path is entered afterwards.                                              *)
C11_SetupFailureReported ==
  \A i \in Invs :
    (Has(steps[i], "validateOptions:throw") \/ Has(steps[i], "require:throw")) =>
      /\ ~syncThrown[i]
      /\ Len(cb[i]) = 1
      /\ cb[i][1].error \in {"optionsInvalid", "requireFail"}
      /\ cb[i][1].text = NoText
      /\ steps[i][Len(steps[i])] = "callback"
      /\ ~PassedSetup(i)
      /\ visitorP[i].st = "none" /\ renderP[i].st = "none"
      /\ parts[i] = << >> /\ newLoader[i] = << >> /\ ~Subscribed(i)
      /\ \A x \in {"tokenize", "tokenize:throw", "setLoader", "setLoader:throw"} :
           ~Has(steps[i], x)

C11_Witness ==
  \E i, j \in Invs :
    /\ Len(cb[i]) = 1 /\ cb[i][1].error = "optionsInvalid"
    /\ Len(cb[j]) = 1 /\ cb[j][1].error = "requireFail"

CountOf(seq, x) == Cardinality({k \in 1..Len(seq) : seq[k] = x})

(* C12 as claimed: every invocation, whatever its mode and outcome, makes   *)
(* exactly one addDependency declaration for the Environment module path.   *)
C12_OneEnvDeclarationAlways ==
  \A i \in Invs : pc[i] # "idle" => CountOf(deps[i], slash(EnvModulePath)) = 1

(* C12 amended: every invocation whose options pass validation makes        *)
(* exactly one addDependency declaration for the Environment module path,   *)
(* whatever its mode and outcome; one whose options are rejected makes no   *)
(* declaration at all.                                                      *)
C12_OneEnvDeclarationIfValid ==
  \A i \in Invs : pc[i] # "idle" =>
    IF Has(steps[i], "validateOptions:throw")
    THEN deps[i] = << >>
    ELSE /\ CountOf(deps[i], slash(EnvModulePath)) = 1
         /\ deps[i][1] = slash(EnvModulePath)

C12_Witness ==
  \E i, j \in Invs :
    /\ Has(steps[i], "require:throw") /\ pc[i] = "done"
    /\ RenderInv(j) /\ Succeeded(j) /\ Len(deps[j]) = 3

(* C13 as claimed: when parsing the template fails the invocation fails     *)
(* through the callback and has made no addDependency call at all.          *)
C13_ParseFailureNoDeclarations ==
  \A i \in Invs : Has(steps[i], "parse:throw") =>
    /\ Len(cb[i]) = 1 /\ cb[i][1].error # NoError
    /\ deps[i] = << >>

(* C13 amended: when parsing the template fails the invocation fails       *)
(* through the callback, and the only addDependency call it has made is the *)
(* declaration of the Environment module path: no template dependency.      *)
C13_ParseFailureOnlyEnvDeclaration ==
  \A i \in Invs : Has(steps[i], "parse:throw") =>
    /\ Len(cb[i]) = 1
    /\ cb[i][1].error = "parseFail"
    /\ cb[i][1].text = NoText
    /\ deps[i] = <<slash(EnvModulePath)>>
    /\ tasks[i] = << >>

C13_Witness ==
  \E i, j \in Invs :
    /\ i < j
    /\ RenderInv(i) /\ Subscribed(i)
    /\ Has(steps[j], "parse:throw") /\ pc[j] = "done"
    /\ emitted[i] > 0

(* C14: the template key is the path itself unless the build mode is        *)
(* 'production' (an unset mode included), and the hexadecimal digest of the *)
(* path in 'production'; equal paths get equal keys; the TwingSource name,  *)
(* the registerTemplatesModule call and the emitted render function all use *)
(* that one key.                                                            *)
C14_KeyDerivation ==
  \A i \in Invs : (PrecompileInv(i) /\ visitorP[i].st # "none") =>
    LET key == nodeModule[i].source.name IN
    /\ mode \in {"development", "none"} => key = inp[i].resourcePath
    /\ mode = "production" => key = <<"sha256hex">> \o inp[i].resourcePath
    /\ \A j \in Invs :
         (PrecompileInv(j) /\ visitorP[j].st # "none"
            /\ inp[j].resourcePath = inp[i].resourcePath)
           => nodeModule[j].source.name = key
    /\ Succeeded(i) =>
         LET t == cb[i][1].text IN
         \A k \in 1..Len(t) :
           t[k].kind \in {"register", "renderTemplate"} => t[k].arg = key

C14_Witness ==
  \E i, j \in Invs :
    /\ i # j /\ mode = "none"
    /\ PrecompileInv(i) /\ Succeeded(i)
    /\ PrecompileInv(j) /\ Succeeded(j)
    /\ inp[i].resourcePath = inp[j].resourcePath
    /\ inp[i].resourcePath = slash(PathB)

(* C15: PathSupportingArrayLoader.getSourceContext(name, from) returns, for *)
(* a stored name, the stored code and name with the path set to the         *)
(* requested name; for any other name it fails with the underlying          *)
(* not-found error unchanged, and the chain falls through to the loader     *)
(* behind it.                                                               *)
C15_GetSourceContext ==
  \A i \in Invs : newLoader[i] # << >> =>
    LET entry == Head(newLoader[i]) IN
    \A name \in RefNames \cup {slash(p) : p \in RawResourcePaths} :
      LET r == getSourceContext(entry, name) IN
      /\ name = inp[i].resourcePath =>
           /\ r.ok
           /\ r.code = inp[i].source
           /\ r.name = inp[i].resourcePath
           /\ r.path = name
           /\ ChainGetSourceContext(newLoader[i], name) = r
      /\ name # inp[i].resourcePath =>
           /\ r = superGetSourceContext(entry, name)
           /\ ~r.ok /\ r.error = "loaderError"
           /\ ChainGetSourceContext(newLoader[i], name)
                = ChainGetSourceContext(Tail(newLoader[i]), name)
      /\ ChainGetSourceContext(newLoader[i], name).ok
           = ChainExists(newLoader[i], name)
      /\ ChainExists(newLoader[i], name) =>
           ChainGetSourceContext(newLoader[i], name).code
             = ChainCode(newLoader[i], name)

C15_Witness ==
  \E i, j \in Invs :
    /\ i < j
    /\ Len(newLoader[j]) = 2
    /\ inp[i].resourcePath # inp[j].resourcePath
    /\ inp[i].source # DiskCode
    /\ ChainGetSourceContext(newLoader[j], inp[i].resourcePath)
         = TwingSource(inp[i].source, inp[i].resourcePath, inp[i].resourcePath)
    /\ ~ChainGetSourceContext(newLoader[j], PathMissing).ok

(* C16: once a render-mode invocation's callback has been invoked, it      *)
(* makes no further addDependency call: no obligation that its listener     *)
(* pushed after the callback, for a notification caused by a later          *)
(* invocation on the same Environment, has gone on to call addDependency.   *)
C16_NoDeclarationAfterCallback ==
  \A i \in Invs : (RenderInv(i) /\ cb[i] # << >>) =>
    \A k \in (seen[i] + 1)..Len(tasks[i]) :
      ~(tasks[i][k].by > i /\ tasks[i][k].st = "fulfilled")

(* C17: after a render-mode invocation has invoked its callback, and while  *)
(* no other render-mode invocation is in progress, the Environment's active *)
(* loader is the loader that was configured before the invocations: no      *)
(* in-memory override of a finished invocation is left in it.               *)
C17_LoaderRestoredAfterCallback ==
  (/\ \E i \in Invs : RenderInv(i) /\ cb[i] # << >>
   /\ \A j \in Invs : RenderInv(j) => cb[j] # << >>)
    => envLoader = << >>

RECURSIVE InstalledOverrides(_)
InstalledOverrides(n) ==
  IF n = 0 THEN << >>
  ELSE IF Has(steps[n], "setLoader")
       THEN <<[path |-> inp[n].resourcePath, code |-> inp[n].source]>>
              \o InstalledOverrides(n - 1)
       ELSE InstalledOverrides(n - 1)

RECURSIVE AttachedListeners(_)
AttachedListeners(n) ==
  IF n = 0 THEN << >>
  ELSE IF Has(steps[n], "on")
       THEN Append(AttachedListeners(n - 1), n)
       ELSE AttachedListeners(n - 1)

(* C18: a precompile-mode invocation installs no loader and attaches no     *)
(* listener (the active loader and the listeners are exactly what the       *)
(* render-mode invocations put there), its only addDependency call is the   *)
(* declaration of the Environment module path, and the templates it         *)
(* discovers appear only as require statements of the emitted text.         *)
C18_PrecompileFrame ==
  /\ envLoader = InstalledOverrides(MaxInv)
  /\ listeners = AttachedListeners(MaxInv)
  /\ \A i \in Invs : PrecompileInv(i) =>
       /\ ~Has(steps[i], "setLoader") /\ ~Has(steps[i], "on")
       /\ newLoader[i] = << >> /\ tasks[i] = << >>
       /\ deps[i] = <<slash(EnvModulePath)>>
       /\ Succeeded(i) =>
            LET t == cb[i][1].text IN
            {t[k].arg : k \in RequireIndexes(t)} = RefSet(i)

C18_Witness ==
  \E i, j \in Invs :
    /\ i < j
    /\ RenderInv(i) /\ Subscribed(i) /\ pc[i] = "rendering" /\ emitted[i] > 0
    /\ envLoader = newLoader[i]
    /\ PrecompileInv(j) /\ Succeeded(j)
    /\ Cardinality(RefSet(j)) = 2

IsSuffix(a, b) ==
  /\ Len(a) <= Len(b)
  /\ SubSeq(b, Len(b) - Len(a) + 1, Len(b)) = a

(* C19: when render-mode invocations interleave on one Environment, an      *)
(* invocation's lookup of its own resource path through the active loader   *)
(* returns its own in-memory source in every interleaving, unless another   *)
(* invocation installed different text for the same resource path: a later  *)
(* chain wraps the earlier chain, it does not replace it.                   *)
C19_InterleavedOverridesKept ==
  \A i \in Invs : Has(steps[i], "setLoader") =>
    LET own == ChainGetSourceContext(envLoader, inp[i].resourcePath) IN
    /\ own.ok
    /\ own.path = inp[i].resourcePath
    /\ own.code # inp[i].source =>
         \E j \in Invs :
           /\ j # i /\ Has(steps[j], "setLoader")
           /\ inp[j].resourcePath = inp[i].resourcePath
           /\ inp[j].source # inp[i].source
           /\ own.code = inp[j].source
    /\ (\A j \in Invs :
          (j # i /\ Has(steps[j], "setLoader"))
            => inp[j].resourcePath # inp[i].resourcePath)
         => own.code = inp[i].source
    /\ \A j \in Invs :
         (j # i /\ Has(steps[j], "setLoader"))
           => IsSuffix(newLoader[IF i < j THEN i ELSE j],
                          newLoader[IF i < j THEN j ELSE i])

C19_Witness ==
  \E i, j \in Invs :
    /\ i < j
    /\ renderP[i].st = "pending" /\ renderP[j].st = "pending"
    /\ emitted[i] > 0 /\ emitted[j] > 0
    /\ inp[i].resourcePath # inp[j].resourcePath
    /\ inp[i].source # inp[j].source
    /\ ChainCode(envLoader, inp[i].resourcePath) = inp[i].source
    /\ ChainCode(envLoader, inp[j].resourcePath) = inp[j].source

(* C20: in the variants of part_000 and part_001 a render-mode invocation   *)
(* whose render or whose joined dependency resolution was rejected, and     *)
(* which has no step left to take, has invoked the host callback.           *)
C20_VariantCallbackInvoked ==
  \A i \in Invs :
    (RenderInv(i) /\ pc[i] = "abandoned") => cb[i] # << >>

====
